---- MODULE Spec2Model ----
(***************************************************************************)
(* State-machine model of the chat service's provider adapters             *)
(* (src/src/services/deepseek.ts): DeepSeekService.chat,                   *)
(* OpenAIService.chat, OpenAIService.chatWithHistory and the streaming     *)
(* generator OpenAIService.chatStream with its SSE line decoder, the        *)
(* adapter's configuration (setDefaultModel), and the entry points that    *)
(* call the adapter: the GraphQL resolvers sendMessage, chat and           *)
(* createChat and the REST handler handleChatAPI; the worker's fetch       *)
(* (src/src/index.ts) with its routes and CORS headers; and two adapter    *)
(* calls in flight at once.                                                *)
(*                                                                         *)
(* Conventions.  An optional value (a `?:` field, `undefined`) is the      *)
(* empty tuple None or the one-element tuple Some(v).  Identifiers,        *)
(* prompts, model names and error-message parts are TLA+ strings; texts    *)
(* whose characters matter (message contents, the streamed body) are       *)
(* sequences of one-character strings.                                     *)
(***************************************************************************)
EXTENDS Integers, Sequences, FiniteSets, TLC

VARIABLES
    op,          \* the entry point of the call in progress, or "none"
    pc,          \* where that call stands
    request,     \* its request object
    payload,     \* the JSON body POSTed upstream (None before the POST)
    posts,       \* number of upstream POSTs issued by the call
    result,      \* the value the call resolved with (None if none)
    error,       \* the value the call rejected with (None if none)
    response,    \* what the upstream fetch settled with (None before)
    script,      \* chatStream: the events the provider streams
    bodyBytes,   \* chatStream: the bytes of the response body
    pos,         \* chatStream: how many of them the reader has delivered
    bodyState,   \* the response body: "none", "open", "closed", "errored"
    readerLocked,\* chatStream: the reader's lock on the body is held
    held,        \* chatStream: bytes the TextDecoder holds back
    buffer,      \* chatStream: `buffer`
    lines,       \* chatStream: the lines the suspended for-loop has left
    yielded,     \* chatStream: the deltas handed to the consumer, in order
    framed,      \* chatStream: every read so far delivered one whole event
    defaultModel,\* the adapter's `defaultModel` field
    sent,        \* the POSTs the adapter has issued since its construction
    entry,       \* the entry point handling a request, or "none"
    input,       \* what that entry point was called with (None if none)
    reply,       \* what the entry point answered or threw (None before)
    adapters,    \* number of adapters the entry point has constructed
    parked       \* the locals of a second call in flight while this one runs

callVars == <<op, pc, request, payload, posts, result, error, response>>
streamVars ==
    <<script, bodyBytes, pos, bodyState, readerLocked, held, buffer, lines, yielded,
      framed>>
adapterVars == <<defaultModel, sent>>
callerVars == <<entry, input, reply, adapters, parked>>
vars == <<callVars, streamVars, adapterVars, callerVars>>

-----------------------------------------------------------------------------
(* Bounds of the model *)

MaxHistory == 2      \* longest history passed to chatWithHistory
MaxNow == 1          \* largest Date.now() value drawn
MaxEvents == 3       \* longest event script a provider streams
MaxCalls == 2        \* most calls made on one adapter

-----------------------------------------------------------------------------
(* Optional values and JavaScript truthiness *)

None == <<>>
Some(v) == <<v>>

\* `x || d` on an optional string: undefined and '' are both falsy
OrElse(opt, d) == IF opt # None /\ opt[1] # "" THEN opt[1] ELSE d

\* `x ?? d`: only undefined (or null) selects the default
Nullish(opt, d) == IF opt # None THEN opt[1] ELSE d

\* `if (x)` on an optional text (a sequence of characters)
TruthyText(opt) == opt # None /\ Len(opt[1]) > 0

-----------------------------------------------------------------------------
(* Requests: ChatServiceRequest, and chatWithHistory's extension of it *)

Messages == { <<>>, <<" ">>, <<"h", "i">> }
OptConversationIds == { None, Some(""), Some("c7") }
OptSystemPrompts == { None, Some(<<>>), Some(<<"s">>) }
OptModels == { None, Some(""), Some("gpt-x") }
OptTemperatures == { None, Some(0) }
OptMaxTokens == { None, Some(50) }

HistoryEntries ==
    { [role |-> "user", content |-> <<"q">>],
      [role |-> "assistant", content |-> <<"r">>] }

SeqsUpTo(S, n) == UNION { [1..k -> S] : k \in 0..n }

OptHistories == { None } \cup { Some(h) : h \in SeqsUpTo(HistoryEntries, MaxHistory) }

\* the first ChatServiceRequest interface, used by DeepSeekService
DeepSeekRequests ==
    [message : Messages, conversationId : OptConversationIds,
     systemPrompt : OptSystemPrompts]

\* the second ChatServiceRequest interface, used by OpenAIService
OpenAIRequests ==
    [message : Messages, conversationId : OptConversationIds,
     systemPrompt : OptSystemPrompts, model : OptModels,
     temperature : OptTemperatures, maxTokens : OptMaxTokens]

\* ChatServiceRequest & { history?: ... }
HistoryRequests ==
    [message : Messages, conversationId : OptConversationIds,
     systemPrompt : OptSystemPrompts, model : OptModels,
     temperature : OptTemperatures, maxTokens : OptMaxTokens,
     history : OptHistories]

-----------------------------------------------------------------------------
(* Adapter configuration and payload defaults *)

DeepSeekModel == "deepseek-chat"
OpenAIDefaultModel == "gpt-4o"
DefaultTemperature == 7        \* 0.7, in tenths
DefaultMaxTokens == 2000

-----------------------------------------------------------------------------
(* Building the message list *)

SystemMessages(req) ==
    IF TruthyText(req.systemPrompt)
    THEN << [role |-> "system", content |-> req.systemPrompt[1]] >>
    ELSE << >>

UserMessage(req) == [role |-> "user", content |-> req.message]

\* request.history.forEach(msg => messages.push({role, content}))
HistoryMessages(req) ==
    IF req.history # None /\ Len(req.history[1]) > 0
    THEN [i \in 1..Len(req.history[1]) |->
            [role |-> req.history[1][i].role, content |-> req.history[1][i].content]]
    ELSE << >>

ChatMessages(req) == SystemMessages(req) \o << UserMessage(req) >>

\* fault variant: the history is appended after the current user message
ChatWithHistoryMessagesHistoryLast(req) ==
    SystemMessages(req) \o << UserMessage(req) >> \o HistoryMessages(req)

ChatWithHistoryMessages(req) ==
    SystemMessages(req) \o HistoryMessages(req) \o << UserMessage(req) >>

ChatStreamMessages(req) == SystemMessages(req) \o << UserMessage(req) >>

DeepSeekPayload(req) ==
    [model |-> DeepSeekModel, messages |-> ChatMessages(req),
     temperature |-> DefaultTemperature, max_tokens |-> DefaultMaxTokens,
     stream |-> FALSE]

OpenAIChatPayload(req, fallback) ==
    [model |-> OrElse(req.model, fallback), messages |-> ChatMessages(req),
     temperature |-> Nullish(req.temperature, DefaultTemperature),
     max_tokens |-> Nullish(req.maxTokens, DefaultMaxTokens),
     stream |-> FALSE, top_p |-> 1, frequency_penalty |-> 0, presence_penalty |-> 0]

ChatWithHistoryPayload(req, fallback) ==
    [model |-> OrElse(req.model, fallback),
     messages |-> ChatWithHistoryMessages(req),
     temperature |-> Nullish(req.temperature, DefaultTemperature),
     max_tokens |-> Nullish(req.maxTokens, DefaultMaxTokens),
     stream |-> FALSE]

ChatStreamPayload(req, fallback) ==
    [model |-> OrElse(req.model, fallback),
     messages |-> ChatStreamMessages(req),
     temperature |-> Nullish(req.temperature, DefaultTemperature),
     max_tokens |-> Nullish(req.maxTokens, DefaultMaxTokens),
     stream |-> TRUE]

-----------------------------------------------------------------------------
(* What the upstream fetch can settle with *)

Statuses == { 200, 400, 401, 429, 500, 503 }

StatusText(s) ==
    CASE s = 200 -> "OK"
      [] s = 400 -> "Bad Request"
      [] s = 401 -> "Unauthorized"
      [] s = 429 -> "Too Many Requests"
      [] s = 500 -> "Internal Server Error"
      [] s = 503 -> "Service Unavailable"

\* response.ok
ResponseOk(s) == s >= 200 /\ s <= 299

\* `${response.status} ${response.statusText}`
StatusLine(s) == ToString(s) \o " " \o StatusText(s)

Choice1 == [message |-> Some([content |-> <<"A">>]), finish_reason |-> "stop"]
Choice2 == [message |-> Some([content |-> <<"B">>]), finish_reason |-> "length"]
ChoiceNoMessage == [message |-> None, finish_reason |-> "stop"]

ChoiceLists ==
    { None, Some(<<>>), Some(<<Choice1>>), Some(<<Choice2, Choice1>>),
      Some(<<ChoiceNoMessage>>) }

Usages ==
    { None, Some([prompt_tokens |-> 5, completion_tokens |-> 3, total_tokens |-> 8]) }

\* a body that is not JSON: response.json() rejects, response.text() gives it
TextBodies ==
    { [isJson |-> FALSE, text |-> "<html>", error |-> None, choices |-> None,
       usage |-> None, model |-> None] }

\* a JSON body of a completion
DataBodies ==
    [isJson : {TRUE}, text : {"{..}"}, error : {None}, choices : ChoiceLists,
     usage : Usages, model : {Some("gpt-4o-2024")}]

\* a JSON body of a failure: {error: {message}} with a message or an empty
\* one, and a JSON body with no error member
ErrorBodies ==
    [isJson : {TRUE}, text : {"{err}"},
     error : { None, Some([message |-> Some("")]),
               Some([message |-> Some("quota exceeded")]) },
     choices : {None}, usage : {None}, model : {None}]

\* fetch() rejects: with an Error (a TypeError), or with a value that is none
Rejections ==
    { [settled |-> "rejected",
       reason |-> [isError |-> TRUE, name |-> "TypeError",
                   message |-> <<"fetch failed">>]],
      [settled |-> "rejected",
       reason |-> [isError |-> FALSE, name |-> "", message |-> <<"timeout">>]] }

Responses ==
    { [settled |-> "fulfilled", status |-> s, body |-> b] :
        s \in Statuses,
        b \in TextBodies \cup DataBodies \cup ErrorBodies }

\* the responses a provider sends: a completion body on 2xx, a failure body
\* otherwise, and a non-JSON body on either
ProviderResponses ==
    { r \in Responses :
        \/ r.body \in TextBodies
        \/ ResponseOk(r.status) /\ r.body \in DataBodies
        \/ ~ResponseOk(r.status) /\ r.body \in ErrorBodies }

FetchOutcomes == Rejections \cup ProviderResponses

-----------------------------------------------------------------------------
(* Errors and conversation identifiers *)

\* new Error(message)
NewError(msg) == [isError |-> TRUE, name |-> "Error", message |-> msg]

\* what a failed JSON.parse / response.json() throws
JsonSyntaxError ==
    [isError |-> TRUE, name |-> "SyntaxError", message |-> <<"Unexpected token">>]

\* what reading a property of undefined throws
PropertyTypeError ==
    [isError |-> TRUE, name |-> "TypeError",
     message |-> <<"Cannot read properties of undefined">>]

Return(v) == [tag |-> "return", value |-> v]
Throw(e) == [tag |-> "throw", value |-> e]

\* catch (error) { if (error instanceof Error) throw error; throw new Error(msg) }
CatchRethrow(outcome, msg) ==
    IF outcome.tag = "throw" /\ ~outcome.value.isError
    THEN Throw(NewError(<<msg>>))
    ELSE outcome

RandomSuffixes == { "", "k3x9q" }

\* `conv_${Date.now()}_${Math.random().toString(36).substr(2, 9)}`
generateConversationId(now, rnd) == "conv_" \o ToString(now) \o "_" \o rnd

\* fault variant: `??` in place of `||`, so that '' is echoed back
ConversationIdForNullish(req, now, rnd) ==
    Nullish(req.conversationId, generateConversationId(now, rnd))

\* request.conversationId || this.generateConversationId()
ConversationIdFor(req, now, rnd) ==
    OrElse(req.conversationId, generateConversationId(now, rnd))

\* errorData?.error?.message || `${response.status} ${response.statusText}`
ErrorMessageOf(res) ==
    IF /\ res.body.isJson
       /\ res.body.error # None
       /\ res.body.error[1].message # None
       /\ res.body.error[1].message[1] # ""
    THEN res.body.error[1].message[1]
    ELSE StatusLine(res.status)

\* !data.choices || data.choices.length === 0
NoChoices(body) == body.choices = None \/ Len(body.choices[1]) = 0

-----------------------------------------------------------------------------
(* The completion handlers, from the settled fetch to the settled call *)

\* DeepSeekService.chat: the try block
DeepSeekChatTry(req, out, now, rnd) ==
    IF out.settled = "rejected" THEN Throw(out.reason)
    ELSE IF ~ResponseOk(out.status)
    THEN Throw(NewError(<<"DeepSeek API error: ", StatusLine(out.status), " - ",
                          out.body.text>>))
    ELSE IF ~out.body.isJson THEN Throw(JsonSyntaxError)
    ELSE IF NoChoices(out.body)
    THEN Throw(NewError(<<"No response from DeepSeek API">>))
    ELSE IF out.body.choices[1][1].message = None THEN Throw(PropertyTypeError)
    ELSE Return([message |-> out.body.choices[1][1].message[1].content,
                 conversationId |-> ConversationIdFor(req, now, rnd),
                 usage |-> out.body.usage])

DeepSeekChatOutcome(req, out, now, rnd) ==
    CatchRethrow(DeepSeekChatTry(req, out, now, rnd),
                 "Failed to communicate with DeepSeek API")

\* OpenAIService.chat: the status branches of `if (!response.ok)`
OpenAIChatStatusError(res) ==
    IF res.status = 401 THEN NewError(<<"Invalid OpenAI API key">>)
    ELSE IF res.status = 429
    THEN NewError(<<"OpenAI API rate limit exceeded. Please try again later.">>)
    ELSE IF res.status = 503
    THEN NewError(<<"OpenAI API is temporarily unavailable. Please try again later.">>)
    ELSE NewError(<<"OpenAI API error: ", ErrorMessageOf(res)>>)

\* the result object built from the first choice
OpenAIResult(req, body, now, rnd) ==
    [message |-> body.choices[1][1].message[1].content,
     conversationId |-> ConversationIdFor(req, now, rnd),
     usage |-> body.usage,
     model |-> body.model,
     finishReason |-> body.choices[1][1].finish_reason]

\* OpenAIService.chat: the try block
OpenAIChatTry(req, out, now, rnd) ==
    IF out.settled = "rejected" THEN Throw(out.reason)
    ELSE IF ~ResponseOk(out.status) THEN Throw(OpenAIChatStatusError(out))
    ELSE IF ~out.body.isJson THEN Throw(JsonSyntaxError)
    ELSE IF NoChoices(out.body)
    THEN Throw(NewError(<<"No response from OpenAI API">>))
    ELSE IF out.body.choices[1][1].message = None THEN Throw(PropertyTypeError)
    ELSE Return(OpenAIResult(req, out.body, now, rnd))

OpenAIChatOutcome(req, out, now, rnd) ==
    CatchRethrow(OpenAIChatTry(req, out, now, rnd),
                 "Failed to communicate with OpenAI API")

\* OpenAIService.chatWithHistory: the try block.  There is no check of the
\* choice list: data.choices[0] of a missing list, and choice.message of a
\* missing first choice, throw a TypeError.
ChatWithHistoryTry(req, out, now, rnd) ==
    IF out.settled = "rejected" THEN Throw(out.reason)
    ELSE IF ~ResponseOk(out.status)
    THEN Throw(NewError(<<"OpenAI API error: ", ErrorMessageOf(out)>>))
    ELSE IF ~out.body.isJson THEN Throw(JsonSyntaxError)
    ELSE IF out.body.choices = None THEN Throw(PropertyTypeError)
    ELSE IF Len(out.body.choices[1]) = 0 THEN Throw(PropertyTypeError)
    ELSE IF out.body.choices[1][1].message = None THEN Throw(PropertyTypeError)
    ELSE Return(OpenAIResult(req, out.body, now, rnd))

ChatWithHistoryOutcome(req, out, now, rnd) ==
    CatchRethrow(ChatWithHistoryTry(req, out, now, rnd),
                 "Failed to communicate with OpenAI API")

-----------------------------------------------------------------------------
(* Text primitives used by the stream decoder *)

\* the characters String.prototype.trim removes, among those of the model
Whitespace == { " ", "\t", "\r", "\n" }

RECURSIVE TrimStart(_)
TrimStart(t) ==
    IF Len(t) > 0 /\ Head(t) \in Whitespace THEN TrimStart(Tail(t)) ELSE t

RECURSIVE TrimEnd(_)
TrimEnd(t) ==
    IF Len(t) > 0 /\ t[Len(t)] \in Whitespace
    THEN TrimEnd(SubSeq(t, 1, Len(t) - 1))
    ELSE t

\* line.trim()
Trim(t) == TrimEnd(TrimStart(t))

\* buffer.split('\n'): the pieces between the newlines, always at least one
RECURSIVE SplitLines(_)
SplitLines(t) ==
    IF \E i \in 1..Len(t) : t[i] = "\n"
    THEN LET i == CHOOSE k \in 1..Len(t) :
                      t[k] = "\n" /\ \A j \in 1..(k - 1) : t[j] # "\n"
         IN << SubSeq(t, 1, i - 1) >> \o SplitLines(SubSeq(t, i + 1, Len(t)))
    ELSE << t >>

\* trimmed.startsWith(prefix)
StartsWith(t, prefix) ==
    Len(t) >= Len(prefix) /\ SubSeq(t, 1, Len(prefix)) = prefix

DataPrefix == << "d", "a", "t", "a", ":", " " >>

\* fault variant: the slice after the prefix starts one character late
DataPrefixLengthOffByOne == Len(DataPrefix) + 1
DataPrefixLength == 6
DoneLine == DataPrefix \o << "[", "D", "O", "N", "E", "]" >>

\* TextDecoder.decode(value, {stream: true}) over UTF-8: the two bytes C3 A9
\* are the character e-acute; a lead byte at the end of a chunk is held back
\* until the next chunk; a malformed sequence decodes to U+FFFD.  Bytes below
\* 0x80 are the characters themselves.
RECURSIVE Utf8Decode(_)
Utf8Decode(bytes) ==
    IF bytes = << >> THEN [text |-> << >>, held |-> << >>]
    ELSE IF Head(bytes) = "C3"
    THEN IF Len(bytes) = 1 THEN [text |-> << >>, held |-> bytes]
         ELSE IF bytes[2] = "A9"
         THEN LET r == Utf8Decode(SubSeq(bytes, 3, Len(bytes)))
              IN [text |-> << "é" >> \o r.text, held |-> r.held]
         ELSE LET r == Utf8Decode(Tail(bytes))
              IN [text |-> << "U+FFFD" >> \o r.text, held |-> r.held]
    ELSE IF Head(bytes) = "A9"
    THEN LET r == Utf8Decode(Tail(bytes))
         IN [text |-> << "U+FFFD" >> \o r.text, held |-> r.held]
    ELSE LET r == Utf8Decode(Tail(bytes))
         IN [text |-> << Head(bytes) >> \o r.text, held |-> r.held]

\* decoder.decode(value, {stream: true}) with the bytes the decoder holds
DecodeChunk(kept, chunk) == Utf8Decode(kept \o chunk)

\* the UTF-8 bytes of a text (what the provider's encoder writes)
RECURSIVE Utf8Encode(_)
Utf8Encode(t) ==
    IF t = << >> THEN << >>
    ELSE (IF Head(t) = "é" THEN << "C3", "A9" >> ELSE << Head(t) >>)
         \o Utf8Encode(Tail(t))

\* JSON.parse of a data payload followed by data.choices?.[0]?.delta?.content.
\* JSON texts are abbreviated: "{" text "}" is a chunk object whose first
\* choice's delta has the string `text` as content ("{" and "}" stand for the
\* JSON around the string, so `text` must be legal inside a JSON string);
\* "R" is a chunk object whose delta carries no content (a role-only chunk).
\* Leading and trailing JSON whitespace is allowed; anything else is a
\* SyntaxError.
JsonStringIllegal == { "{", "}", "R", "\r", "\n", "\t", "U+FFFD" }

JsonDelta(json) ==
    LET p == Trim(json) IN
    IF p = << "R" >> THEN [ok |-> TRUE, content |-> None]
    ELSE IF /\ Len(p) >= 2
            /\ p[1] = "{"
            /\ p[Len(p)] = "}"
            /\ \A i \in 2..(Len(p) - 1) : p[i] \notin JsonStringIllegal
    THEN [ok |-> TRUE, content |-> Some(SubSeq(p, 2, Len(p) - 1))]
    ELSE [ok |-> FALSE, content |-> None]

-----------------------------------------------------------------------------
(* The body of chatStream's for-loop over the complete lines *)

Skip == [tag |-> "skip"]
Yield(d) == [tag |-> "yield", delta |-> d]

\* fault variant: the parse error is not caught and leaves the for-loop
OnParseErrorThrows(err) == [tag |-> "throw", error |-> err]

\* catch (parseError) { console.warn(...) }: the line is dropped
OnParseError(err) == Skip

\* fault variant: `if (delta !== undefined)` in place of `if (delta)`, so
\* that an empty content is yielded too
HandleLineYieldsEmpty(line) ==
    LET trimmed == Trim(line) IN
    IF trimmed = << >> \/ trimmed = DoneLine THEN Skip
    ELSE IF ~StartsWith(trimmed, DataPrefix) THEN Skip
    ELSE LET data == JsonDelta(SubSeq(trimmed, DataPrefixLength + 1, Len(trimmed)))
         IN IF ~data.ok THEN OnParseError(JsonSyntaxError)
            ELSE IF data.content # None THEN Yield(data.content[1])
            ELSE Skip

\* one iteration of `for (const line of lines)`
HandleLine(line) ==
    LET trimmed == Trim(line) IN
    IF trimmed = << >> \/ trimmed = DoneLine THEN Skip
    ELSE IF ~StartsWith(trimmed, DataPrefix) THEN Skip
    ELSE LET data == JsonDelta(SubSeq(trimmed, DataPrefixLength + 1, Len(trimmed)))
         IN IF ~data.ok THEN OnParseError(JsonSyntaxError)
            ELSE IF data.content # None /\ Len(data.content[1]) > 0
            THEN Yield(data.content[1])
            ELSE Skip

\* the loop runs until a line yields (the generator suspends there, the rest
\* of the lines still to do), a line throws, or the lines are used up (the
\* generator goes on to the next reader.read())
RECURSIVE RunLines(_)
RunLines(ls) ==
    IF ls = << >> THEN [tag |-> "read"]
    ELSE LET h == HandleLine(Head(ls)) IN
         IF h.tag = "yield"
         THEN [tag |-> "yield", delta |-> h.delta, rest |-> Tail(ls)]
         ELSE IF h.tag = "throw" THEN h
         ELSE RunLines(Tail(ls))

\* fault variant: the last, incomplete piece is dropped instead of kept
SplitBufferDropsFragment(buf, text) ==
    LET pieces == SplitLines(buf \o text)
    IN [lines |-> SubSeq(pieces, 1, Len(pieces) - 1), buffer |-> << >>]

\* buffer += text; lines = buffer.split('\n'); buffer = lines.pop() || ''
SplitBuffer(buf, text) ==
    LET pieces == SplitLines(buf \o text)
    IN [lines |-> SubSeq(pieces, 1, Len(pieces) - 1),
        buffer |-> pieces[Len(pieces)]]

-----------------------------------------------------------------------------
(* Actions *)

\* the local variables of one call: of a completion, its request, payload
\* and outcome; of a stream, also its reader, decoder, buffer and lines
Locals ==
    [op |-> op, pc |-> pc, request |-> request, payload |-> payload,
     posts |-> posts, result |-> result, error |-> error, response |-> response,
     script |-> script, bodyBytes |-> bodyBytes, pos |-> pos,
     bodyState |-> bodyState, readerLocked |-> readerLocked, held |-> held,
     buffer |-> buffer, lines |-> lines, yielded |-> yielded, framed |-> framed]

\* the locals of a call that has not been made
NoCall ==
    [op |-> "none", pc |-> "idle", request |-> None, payload |-> None,
     posts |-> 0, result |-> None, error |-> None, response |-> None,
     script |-> << >>, bodyBytes |-> << >>, pos |-> 0,
     bodyState |-> "none", readerLocked |-> FALSE, held |-> << >>,
     buffer |-> << >>, lines |-> << >>, yielded |-> << >>, framed |-> TRUE]

Init ==
    /\ op = "none"
    /\ pc = "idle"
    /\ request = None
    /\ payload = None
    /\ posts = 0
    /\ result = None
    /\ error = None
    /\ response = None
    /\ script = << >>
    /\ bodyBytes = << >>
    /\ pos = 0
    /\ bodyState = "none"
    /\ readerLocked = FALSE
    /\ held = << >>
    /\ buffer = << >>
    /\ lines = << >>
    /\ yielded = << >>
    /\ framed = TRUE
    /\ defaultModel = OpenAIDefaultModel
    /\ sent = << >>
    /\ entry = "none"
    /\ input = None
    /\ reply = None
    /\ adapters = 0
    /\ parked = NoCall

\* the record of one POST: the entry point, whether the request left the
\* model out, and the model that was sent
Sent(name, req, body) ==
    [op |-> name,
     omitted |-> ("model" \notin DOMAIN req \/ req.model = None),
     model |-> body.model]

\* a completion call runs up to its `await fetch(...)`
Post(name, req, body) ==
    /\ pc = "idle"
    /\ op' = name
    /\ request' = Some(req)
    /\ payload' = Some(body)
    /\ posts' = posts + 1
    /\ pc' = "fetching"
    /\ sent' = Append(sent, Sent(name, req, body))
    /\ UNCHANGED <<result, error, response, streamVars, defaultModel>>

\* fault variant: a rate-limited or unavailable call is issued again
SettleRetrying(out, outcome) ==
    /\ response' = Some(out)
    /\ IF out.settled = "fulfilled" /\ out.status \in { 429, 503 }
       THEN /\ pc' = "fetching"
            /\ posts' = posts + 1
            /\ sent' = Append(sent, sent[Len(sent)])
            /\ UNCHANGED <<result, error>>
       ELSE /\ pc' = IF outcome.tag = "return" THEN "returned" ELSE "threw"
            /\ result' = IF outcome.tag = "return" THEN Some(outcome.value) ELSE None
            /\ error' = IF outcome.tag = "throw" THEN Some(outcome.value) ELSE None
            /\ UNCHANGED <<posts, sent>>
    /\ bodyState' = IF out.settled = "fulfilled" THEN "closed" ELSE "none"
    /\ UNCHANGED <<op, request, payload, defaultModel, callerVars>>
    /\ UNCHANGED <<script, bodyBytes, pos, readerLocked, held, buffer, lines, yielded,
                   framed>>

\* the call settles with what the handler makes of the settled fetch
Settle(out, outcome) ==
    /\ response' = Some(out)
    /\ pc' = IF outcome.tag = "return" THEN "returned" ELSE "threw"
    /\ result' = IF outcome.tag = "return" THEN Some(outcome.value) ELSE None
    /\ error' = IF outcome.tag = "throw" THEN Some(outcome.value) ELSE None
    /\ bodyState' = IF out.settled = "fulfilled" THEN "closed" ELSE "none"
    /\ UNCHANGED <<op, request, payload, posts>>
    /\ UNCHANGED <<script, bodyBytes, pos, readerLocked, held, buffer, lines, yielded,
                   framed>>
    /\ UNCHANGED <<adapterVars, callerVars>>

DeepSeekChatCall ==
    /\ \E req \in DeepSeekRequests :
          Post("DeepSeekService.chat", req, DeepSeekPayload(req))
    /\ UNCHANGED callerVars

DeepSeekChatSettle ==
    /\ pc = "fetching" /\ op = "DeepSeekService.chat"
    /\ \E out \in FetchOutcomes, now \in 0..MaxNow, rnd \in RandomSuffixes :
          Settle(out, DeepSeekChatOutcome(request[1], out, now, rnd))

OpenAIChatCallOf(requests) ==
    /\ \E req \in requests :
          Post("OpenAIService.chat", req, OpenAIChatPayload(req, defaultModel))
    /\ UNCHANGED callerVars

OpenAIChatCall == OpenAIChatCallOf(OpenAIRequests)

OpenAIChatSettle ==
    /\ pc = "fetching" /\ op = "OpenAIService.chat"
    /\ \E out \in FetchOutcomes, now \in 0..MaxNow, rnd \in RandomSuffixes :
          Settle(out, OpenAIChatOutcome(request[1], out, now, rnd))

ChatWithHistoryCallOf(requests) ==
    /\ \E req \in requests :
          Post("OpenAIService.chatWithHistory", req,
               ChatWithHistoryPayload(req, defaultModel))
    /\ UNCHANGED callerVars

ChatWithHistoryCall == ChatWithHistoryCallOf(HistoryRequests)

ChatWithHistorySettle ==
    /\ pc = "fetching" /\ op = "OpenAIService.chatWithHistory"
    /\ \E out \in FetchOutcomes, now \in 0..MaxNow, rnd \in RandomSuffixes :
          Settle(out, ChatWithHistoryOutcome(request[1], out, now, rnd))

-----------------------------------------------------------------------------
(* What a provider streams: a script of server-sent events *)

Events == { "x", "e", "empty", "bad", "role", "done", "tail" }

\* the line of each event: a content delta "x", a content delta of one
\* two-byte character, a delta whose content is the empty string, a data
\* line that is not JSON, a chunk without content, the terminator, and a
\* delta line the provider does not terminate
EventLine(e) ==
    CASE e = "x" -> DataPrefix \o << "{", "x", "}" >>
      [] e = "e" -> DataPrefix \o << "{", "é", "}" >>
      [] e = "empty" -> DataPrefix \o << "{", "}" >>
      [] e = "bad" -> DataPrefix \o << "{", "x" >>
      [] e = "role" -> DataPrefix \o << "R" >>
      [] e = "done" -> DoneLine
      [] e = "tail" -> DataPrefix \o << "{", "y", "}" >>

\* an event is framed `<line>\n\n`, the unterminated line excepted
EventText(e) == EventLine(e) \o (IF e = "tail" THEN << >> ELSE << "\n", "\n" >>)

RECURSIVE ScriptText(_)
ScriptText(sc) ==
    IF sc = << >> THEN << >> ELSE EventText(Head(sc)) \o ScriptText(Tail(sc))

ScriptBytes(sc) == Utf8Encode(ScriptText(sc))

\* the byte offsets at which an event of the script ends
EventEnds(sc) == { Len(ScriptBytes(SubSeq(sc, 1, k))) : k \in 1..Len(sc) }

\* the end of the event that starts at byte offset `at` (0 if none does)
NextEventEnd(sc, at) ==
    IF at \in EventEnds(sc) \cup {0} /\ \E k \in EventEnds(sc) : k > at
    THEN CHOOSE k \in EventEnds(sc) :
            k > at /\ \A j \in EventEnds(sc) : j > at => k <= j
    ELSE 0

Scripts == SeqsUpTo(Events, MaxEvents)

\* the scripts streamed when the requests vary
FewScripts == { << "x" >> }

\* the requests made when the scripts vary
FewRequests ==
    { [message |-> << "h", "i" >>, conversationId |-> None,
       systemPrompt |-> None, model |-> None, temperature |-> None,
       maxTokens |-> None] }

\* what the streaming fetch settles with: a rejection, or a response with a
\* status, with or without a body, whose body streams a script
StreamResponses(scripts) ==
    { [settled |-> "fulfilled", status |-> s, hasBody |-> b, script |-> sc] :
        s \in Statuses, b \in BOOLEAN, sc \in scripts }

StreamOutcomes(scripts) ==
    Rejections \cup
    { r \in StreamResponses(scripts \cup { << >> }) :
        (ResponseOk(r.status) /\ r.hasBody) \/ r.script = << >> }

\* catch (error) { throw error instanceof Error ? error : new Error(msg) }
StreamRethrow(e) ==
    IF e.isError THEN e ELSE NewError(<< "Failed to stream from OpenAI API" >>)

-----------------------------------------------------------------------------
(* chatStream: the generator, driven by its consumer and by the network *)

\* chatStream(request) creates the generator; none of its code has run
ChatStreamCall(requests) ==
    /\ pc = "idle"
    /\ \E req \in requests :
          /\ op' = "OpenAIService.chatStream"
          /\ request' = Some(req)
    /\ pc' = "created"
    /\ UNCHANGED <<payload, posts, result, error, response, streamVars>>
    /\ UNCHANGED <<adapterVars, callerVars>>

\* the consumer's first next(): the code runs up to `await fetch(...)`
StreamStart ==
    /\ pc = "created"
    /\ payload' = Some(ChatStreamPayload(request[1], defaultModel))
    /\ posts' = posts + 1
    /\ pc' = "fetching"
    /\ sent' = Append(sent, Sent(op, request[1],
                                 ChatStreamPayload(request[1], defaultModel)))
    /\ UNCHANGED <<op, request, result, error, response, streamVars>>
    /\ UNCHANGED <<defaultModel, callerVars>>

\* the generator throws out of the inner try: `finally` releases the lock,
\* the outer catch rethrows
StreamThrow(e) ==
    /\ readerLocked' = FALSE
    /\ error' = Some(StreamRethrow(e))
    /\ pc' = "threw"

\* fault variant: after a yield the generator goes on to the next read
\* without waiting for the consumer
AfterLinesEager(run) ==
    IF run.tag = "yield"
    THEN /\ yielded' = Append(yielded, run.delta)
         /\ lines' = run.rest
         /\ pc' = "reading"
         /\ UNCHANGED <<readerLocked, error>>
    ELSE IF run.tag = "throw"
    THEN /\ StreamThrow(run.error)
         /\ UNCHANGED <<yielded, lines>>
    ELSE /\ lines' = << >>
         /\ pc' = "reading"
         /\ UNCHANGED <<yielded, readerLocked, error>>

\* the for-loop went as far as `run` says
AfterLines(run) ==
    IF run.tag = "yield"
    THEN /\ yielded' = Append(yielded, run.delta)
         /\ lines' = run.rest
         /\ pc' = "suspended"
         /\ UNCHANGED <<readerLocked, error>>
    ELSE IF run.tag = "throw"
    THEN /\ StreamThrow(run.error)
         /\ UNCHANGED <<yielded, lines>>
    ELSE /\ lines' = << >>
         /\ pc' = "reading"
         /\ UNCHANGED <<yielded, readerLocked, error>>

\* the fetch settles: a rejection and a non-2xx response throw, a response
\* without a body throws, otherwise the reader is taken and the first
\* reader.read() is awaited
StreamFetchSettle(outcomes) ==
    /\ pc = "fetching" /\ op = "OpenAIService.chatStream"
    /\ \E out \in outcomes :
          /\ response' = Some(out)
          /\ IF out.settled = "rejected"
             THEN /\ error' = Some(StreamRethrow(out.reason))
                  /\ pc' = "threw"
                  /\ UNCHANGED <<script, bodyBytes, bodyState, readerLocked>>
             ELSE IF ~ResponseOk(out.status)
             THEN /\ error' = Some(NewError(<< "OpenAI API error: ",
                                              StatusLine(out.status) >>))
                  /\ pc' = "threw"
                  /\ bodyState' = IF out.hasBody THEN "open" ELSE "none"
                  /\ UNCHANGED <<script, bodyBytes, readerLocked>>
             ELSE IF ~out.hasBody
             THEN /\ error' = Some(NewError(<< "Failed to get response reader" >>))
                  /\ pc' = "threw"
                  /\ UNCHANGED <<script, bodyBytes, bodyState, readerLocked>>
             ELSE /\ script' = out.script
                  /\ bodyBytes' = ScriptBytes(out.script)
                  /\ bodyState' = "open"
                  /\ readerLocked' = TRUE
                  /\ pc' = "reading"
                  /\ UNCHANGED error
    /\ UNCHANGED <<op, request, payload, posts, result>>
    /\ UNCHANGED <<pos, held, buffer, lines, yielded, framed>>
    /\ UNCHANGED <<adapterVars, callerVars>>

\* reader.read() resolves with the next bytes of the body, however many the
\* transport delivers at once: decode, split, keep the last piece, run the
\* lines
ReadChunk ==
    /\ pc = "reading"
    /\ pos < Len(bodyBytes)
    /\ \E n \in 1..(Len(bodyBytes) - pos) :
          LET decoded == DecodeChunk(held, SubSeq(bodyBytes, pos + 1, pos + n))
              split == SplitBuffer(buffer, decoded.text)
          IN /\ pos' = pos + n
             /\ held' = decoded.held
             /\ buffer' = split.buffer
             /\ framed' = (framed /\ pos + n = NextEventEnd(script, pos))
             /\ AfterLines(RunLines(split.lines))
    /\ UNCHANGED <<op, request, payload, posts, result, response>>
    /\ UNCHANGED <<script, bodyBytes, bodyState>>
    /\ UNCHANGED <<adapterVars, callerVars>>

\* fault variant: at end of stream the text left in the buffer is handled as
\* one more line
ReadDoneFlushesBuffer ==
    /\ pc = "reading"
    /\ pos = Len(bodyBytes)
    /\ bodyState' = "closed"
    /\ readerLocked' = FALSE
    /\ pc' = "returned"
    /\ yielded' = IF HandleLine(buffer).tag = "yield"
                  THEN Append(yielded, HandleLine(buffer).delta)
                  ELSE yielded
    /\ UNCHANGED <<op, request, payload, posts, result, error, response>>
    /\ UNCHANGED <<script, bodyBytes, pos, held, buffer, lines, framed>>
    /\ UNCHANGED <<adapterVars, callerVars>>

\* reader.read() resolves with done: break, `finally` releases the lock, the
\* generator returns
ReadDone ==
    /\ pc = "reading"
    /\ pos = Len(bodyBytes)
    /\ bodyState' = "closed"
    /\ readerLocked' = FALSE
    /\ pc' = "returned"
    /\ UNCHANGED <<op, request, payload, posts, result, error, response>>
    /\ UNCHANGED <<script, bodyBytes, pos, held, buffer, lines, yielded, framed>>
    /\ UNCHANGED <<adapterVars, callerVars>>

\* reader.read() rejects: the transport failed
ReadFail ==
    /\ pc = "reading"
    /\ \E rej \in Rejections : StreamThrow(rej.reason)
    /\ bodyState' = "errored"
    /\ UNCHANGED <<op, request, payload, posts, result, response>>
    /\ UNCHANGED <<script, bodyBytes, pos, held, buffer, lines, yielded, framed>>
    /\ UNCHANGED <<adapterVars, callerVars>>

\* the consumer's next() at a yield: the for-loop goes on with the lines left
StreamResume ==
    /\ pc = "suspended"
    /\ AfterLines(RunLines(lines))
    /\ UNCHANGED <<op, request, payload, posts, result, response>>
    /\ UNCHANGED <<script, bodyBytes, pos, bodyState, held, buffer, framed>>
    /\ UNCHANGED <<adapterVars, callerVars>>

\* the consumer's return() (leaving a for-await loop early): at a yield the
\* `finally` releases the lock; a generator not yet started just ends
StreamReturn ==
    /\ pc \in { "created", "suspended" }
    /\ readerLocked' = FALSE
    /\ pc' = "cancelled"
    /\ UNCHANGED <<op, request, payload, posts, result, error, response>>
    /\ UNCHANGED <<script, bodyBytes, pos, bodyState, held, buffer, lines, yielded,
                   framed>>
    /\ UNCHANGED <<adapterVars, callerVars>>

-----------------------------------------------------------------------------
(* The adapter's configuration, and its use for more than one call *)

NewDefaultModels == { "gpt-4o", "gpt-x" }

\* setDefaultModel(model) { this.defaultModel = model }
SetDefaultModel ==
    /\ \E model \in NewDefaultModels : defaultModel' = model
    /\ UNCHANGED <<callVars, streamVars, sent, callerVars>>

\* a call on the adapter is over and the same OpenAIService object is called
\* again: its fields are what the calls and setters so far left in them
AdapterReuse ==
    /\ pc \in { "returned", "threw", "cancelled" }
    /\ Len(sent) < MaxCalls
    /\ op' = "none"
    /\ pc' = "idle"
    /\ request' = None
    /\ payload' = None
    /\ posts' = 0
    /\ result' = None
    /\ error' = None
    /\ response' = None
    /\ script' = << >>
    /\ bodyBytes' = << >>
    /\ pos' = 0
    /\ bodyState' = "none"
    /\ readerLocked' = FALSE
    /\ held' = << >>
    /\ buffer' = << >>
    /\ lines' = << >>
    /\ yielded' = << >>
    /\ framed' = TRUE
    /\ UNCHANGED <<adapterVars, callerVars>>

\* the requests and the scripts of two calls in flight at once
ConcurrentRequests ==
    { [message |-> m, conversationId |-> None, systemPrompt |-> None,
       model |-> None, temperature |-> None, maxTokens |-> None] :
        m \in { << "h", "i" >>, << "y", "o" >> } }

ConcurrentScripts == { << "x" >>, << "e", "tail" >> }

\* the running call gives way, at an await or a yield, to the other call in
\* flight, which goes on with the locals it was left with
Resume(locals) ==
    /\ op' = locals.op
    /\ pc' = locals.pc
    /\ request' = locals.request
    /\ payload' = locals.payload
    /\ posts' = locals.posts
    /\ result' = locals.result
    /\ error' = locals.error
    /\ response' = locals.response
    /\ script' = locals.script
    /\ bodyBytes' = locals.bodyBytes
    /\ pos' = locals.pos
    /\ bodyState' = locals.bodyState
    /\ readerLocked' = locals.readerLocked
    /\ held' = locals.held
    /\ lines' = locals.lines
    /\ yielded' = locals.yielded
    /\ framed' = locals.framed

\* fault variant: `buffer` is a field of the adapter, which the two calls
\* share
SwitchSharingBuffer ==
    /\ parked' = Locals
    /\ Resume(parked)
    /\ buffer' = buffer
    /\ UNCHANGED <<adapterVars, entry, input, reply, adapters>>

\* the event loop switches between the two calls: each has its own locals
Switch ==
    /\ parked' = Locals
    /\ Resume(parked)
    /\ buffer' = parked.buffer
    /\ UNCHANGED <<adapterVars, entry, input, reply, adapters>>

\* the requests made when the configuration varies
ConfigRequests ==
    { [message |-> << "h", "i" >>, conversationId |-> None,
       systemPrompt |-> None, model |-> m, temperature |-> None,
       maxTokens |-> None] : m \in { None, Some("gpt-x") } }

-----------------------------------------------------------------------------
(* The entry points: what they are called with *)

MaxMessageLength == 10000

\* a JavaScript value in the place of `message`: a string, undefined, or a
\* value of another type (a number other than 0)
Str(t) == [type |-> "string", text |-> t]
Undefined == [type |-> "undefined", text |-> << >>]
NumberValue == [type |-> "number", text |-> << >>]

LongMessage == [i \in 1..(MaxMessageLength + 1) |-> "a"]

CallerMessages ==
    { Undefined, NumberValue, Str(<< >>), Str(<< " " >>),
      Str(<< "h", "i", " " >>), Str(LongMessage) }

\* env.DEEPSEEK_API_KEY and env.OPENAI_API_KEY, set or not
Envs == [DEEPSEEK_API_KEY : { "", "sk-d" }, OPENAI_API_KEY : { "", "sk-o" }]

CallerSystemPrompts == { None, Some(<< "s" >>) }
CallerModels == { None, Some("gpt-x") }

\* the `input` of sendMessage (the schema makes message a String)
SendMessageInputs ==
    [message : { m \in CallerMessages : m.type = "string" },
     conversationId : OptConversationIds, systemPrompt : CallerSystemPrompts,
     model : CallerModels, env : Envs, contentTypeJson : { TRUE },
     bodyJson : { TRUE }]

\* the arguments of Query.chat and the `input` of createChat
ChatArgs ==
    [message : { m \in CallerMessages : m.type = "string" },
     conversationId : OptConversationIds, systemPrompt : CallerSystemPrompts,
     model : { None }, env : Envs, contentTypeJson : { TRUE },
     bodyJson : { TRUE }]

\* a POST /api/chat: a JSON body, and a request whose Content-Type is not
\* JSON or whose body does not parse
RestRequests ==
    [message : CallerMessages,
     conversationId : OptConversationIds, systemPrompt : CallerSystemPrompts,
     model : CallerModels, env : Envs, contentTypeJson : { TRUE },
     bodyJson : { TRUE }]
    \cup
    [message : { Str(<< "h", "i", " " >>) },
     conversationId : { None }, systemPrompt : { None },
     model : { None }, env : Envs, contentTypeJson : BOOLEAN,
     bodyJson : BOOLEAN]

\* !m || typeof m !== 'string' || m.trim().length === 0
InvalidMessage(m) ==
    \/ m.type = "undefined"
    \/ m.type = "string" /\ Len(m.text) = 0
    \/ m.type # "string"
    \/ Len(Trim(m.text)) = 0

-----------------------------------------------------------------------------
(* The entry points: what they answer *)

\* middleware/cors: the headers every handler spreads into its response
corsHeaders ==
    ("Access-Control-Allow-Origin" :> "*")
    @@ ("Access-Control-Allow-Methods" :> "GET, POST, PUT, DELETE, OPTIONS")
    @@ ("Access-Control-Allow-Headers"
            :> "Content-Type, Authorization, X-Requested-With")
    @@ ("Access-Control-Max-Age" :> "86400")

\* headers: { 'Content-Type': 'application/json', ...corsHeaders }
JsonHeaders == corsHeaders @@ ("Content-Type" :> "application/json")

\* fault variant: the error response without the CORS headers
jsonErrorWithoutCors(message, code, status) ==
    [tag |-> "response", status |-> status,
     headers |-> ("Content-Type" :> "application/json"),
     body |-> [error |-> message, code |-> code]]

\* jsonError(message, code, status)
jsonError(message, code, status) ==
    [tag |-> "response", status |-> status, headers |-> JsonHeaders,
     body |-> [error |-> message, code |-> code]]

\* throw new GraphQLError(message, {extensions: {code}})
GraphQLError(message, code) ==
    Throw([isError |-> TRUE, name |-> "GraphQLError", message |-> message,
           code |-> Some(code)])

\* new OpenAIService(apiKey): if (!apiKey) throw new Error(...)
NewOpenAIService(apiKey) ==
    IF apiKey = "" THEN Throw(NewError(<< "OpenAI API key is required" >>))
    ELSE Return(apiKey)

\* the outcome of the adapter call, as the awaiting handler sees it
AdapterOutcome ==
    IF pc = "returned" THEN Return(result[1]) ELSE Throw(error[1])

\* error instanceof Error ? error.message : fallback
MessageOfError(e, fallback) == IF e.isError THEN e.message ELSE << fallback >>

\* estimateTokens(text): Math.ceil(text.length / 4)
estimateTokens(text) == (Len(text) + 3) \div 4

\* `msg_${Date.now()}_${Math.random().toString(36).substr(2, 9)}`
generateMessageId(now, rnd) == "msg_" \o ToString(now) \o "_" \o rnd

\* the request object the entry points pass to openAIService.chat
AdapterRequest(inp) ==
    [message |-> Trim(inp.message.text), conversationId |-> inp.conversationId,
     systemPrompt |-> inp.systemPrompt, model |-> None, temperature |-> None,
     maxTokens |-> None]

Call(req) == [tag |-> "call", request |-> req]

InvalidMessageText == << "Message is required and must be a non-empty string" >>

\* handleChatAPI up to `await openAIService.chat(...)`: the response it
\* returns at once, or the call it makes
HandleChatAPIBefore(inp) ==
    IF ~inp.contentTypeJson
    THEN jsonError(<< "Invalid Content-Type. Expected application/json" >>,
                   "INVALID_CONTENT_TYPE", 400)
    ELSE IF ~inp.bodyJson
    THEN jsonError(<< "Invalid JSON in request body" >>, "INVALID_JSON", 400)
    ELSE IF InvalidMessage(inp.message)
    THEN jsonError(InvalidMessageText, "INVALID_MESSAGE", 400)
    ELSE IF inp.env.OPENAI_API_KEY = ""
    THEN jsonError(<< "OpenAI API key not configured" >>, "MISSING_API_KEY", 500)
    ELSE Call(AdapterRequest(inp))

\* handleChatAPI after the adapter call: a rejection of the adapter leaves
\* the handler as it is; a result is answered with a fixed model label
HandleChatAPIAfter(outcome) ==
    IF outcome.tag = "throw" THEN outcome
    ELSE [tag |-> "response", status |-> 200, headers |-> JsonHeaders,
          body |-> [message |-> outcome.value.message,
                    conversationId |-> outcome.value.conversationId,
                    model |-> "deepseek-chat",
                    usage |-> outcome.value.usage]]

\* fault variant: the worker's fetch without its try/catch
FetchWithoutCatch(out) == out

\* the worker's fetch: catch (error) { return jsonError(..., 500) }
FetchCatch(out) ==
    IF out.tag = "throw"
    THEN jsonError(MessageOfError(out.value, "Internal server error"),
                   "INTERNAL_ERROR", 500)
    ELSE out

\* the requestBody Query.chat and createChat build for handleChatAPI
ResolverRequestBody(inp, model) ==
    [inp EXCEPT
        !.message = Str(Trim(inp.message.text)),
        !.conversationId =
            IF OrElse(inp.conversationId, "") # "" THEN inp.conversationId ELSE None,
        !.systemPrompt =
            IF TruthyText(inp.systemPrompt) THEN inp.systemPrompt ELSE None,
        !.model = model]

\* Query.chat and createChat after handleChatAPI has answered `out`
ResolverChatAfter(out) ==
    IF out.tag = "throw"
    THEN Throw(NewError(<< "Chat service error: " >>
                        \o MessageOfError(out.value, "Unknown error")))
    ELSE IF ~ResponseOk(out.status)
    THEN Throw(NewError(<< "Chat service error: " >> \o out.body.error))
    ELSE Return([message |-> out.body.message,
                 conversationId |-> out.body.conversationId,
                 model |-> out.body.model,
                 usage |-> out.body.usage])

\* Query.chat and createChat up to the adapter call
ResolverChatBefore(inp, model) ==
    IF InvalidMessage(inp.message) THEN Throw(NewError(InvalidMessageText))
    ELSE LET before == HandleChatAPIBefore(ResolverRequestBody(inp, model))
         IN IF before.tag = "call" THEN before ELSE ResolverChatAfter(before)

\* sendMessage: catch (error) { GraphQLError is rethrown, else wrapped }
SendMessageCatch(outcome) ==
    IF outcome.tag = "throw" /\ outcome.value.name # "GraphQLError"
    THEN GraphQLError(MessageOfError(outcome.value, "Internal server error"),
                      "INTERNAL_ERROR")
    ELSE outcome

\* sendMessage up to `await openAIService.chat(...)`
SendMessageBefore(inp) ==
    IF InvalidMessage(inp.message)
    THEN GraphQLError(InvalidMessageText, "INVALID_MESSAGE")
    ELSE IF Len(inp.message.text) > MaxMessageLength
    THEN GraphQLError(<< "Message is too long" >>, "INVALID_INPUT")
    ELSE IF inp.env.DEEPSEEK_API_KEY = ""
    THEN GraphQLError(<< "DeepSeek API key is not configured" >>,
                      "CONFIGURATION_ERROR")
    ELSE IF NewOpenAIService(inp.env.OPENAI_API_KEY).tag = "throw"
    THEN SendMessageCatch(NewOpenAIService(inp.env.OPENAI_API_KEY))
    ELSE Call(AdapterRequest(inp))

\* sendMessage after the adapter call: the conversation with its two messages
SendMessageAfter(inp, outcome, convId, userId, assistantId) ==
    IF outcome.tag = "throw" THEN SendMessageCatch(outcome)
    ELSE LET conversationId == OrElse(Some(outcome.value.conversationId), convId)
         IN Return(
              [message |-> outcome.value.message,
               conversationId |-> conversationId,
               model |-> OrElse(inp.model, "deepseek-chat"),
               usage |-> outcome.value.usage,
               conversation |->
                 [id |-> conversationId,
                  title |-> IF OrElse(inp.conversationId, "") # ""
                            THEN "对话 " \o conversationId ELSE "新对话",
                  messages |->
                    << [id |-> userId, content |-> inp.message.text,
                        role |-> "USER", usage |-> None],
                       [id |-> assistantId, content |-> outcome.value.message,
                        role |-> "ASSISTANT", usage |-> outcome.value.usage] >>,
                  systemPrompt |->
                    IF TruthyText(inp.systemPrompt) THEN inp.systemPrompt
                    ELSE None]])

-----------------------------------------------------------------------------
(* The entry points' actions *)

\* an entry point answers at once, or constructs the adapter and runs up to
\* its `await openAIService.chat(...)`
Enter(name, inp, before) ==
    /\ pc = "idle"
    /\ entry = "none"
    /\ entry' = name
    /\ input' = Some(inp)
    /\ UNCHANGED parked
    /\ IF before.tag = "call"
       THEN /\ Post("OpenAIService.chat", before.request,
                    OpenAIChatPayload(before.request, defaultModel))
            /\ reply' = None
            /\ adapters' = adapters + 1
       ELSE /\ reply' = Some(before)
            /\ UNCHANGED <<callVars, streamVars, adapterVars, adapters>>

\* the adapter call has settled and the entry point answers
Leave(name, after) ==
    /\ entry = name
    /\ reply = None
    /\ pc \in { "returned", "threw" }
    /\ reply' = Some(after)
    /\ UNCHANGED <<callVars, streamVars, adapterVars, entry, input, adapters,
                   parked>>

\* POST /api/chat
RestChatCall ==
    \E inp \in RestRequests :
        Enter("handleChatAPI", inp, FetchCatch(HandleChatAPIBefore(inp)))

RestChatAnswer ==
    Leave("handleChatAPI", FetchCatch(HandleChatAPIAfter(AdapterOutcome)))

QueryChatCall ==
    \E inp \in ChatArgs :
        Enter("Query.chat", inp, ResolverChatBefore(inp, Some("DeepSeek-R1")))

QueryChatAnswer ==
    Leave("Query.chat", ResolverChatAfter(HandleChatAPIAfter(AdapterOutcome)))

CreateChatCall ==
    \E inp \in ChatArgs :
        Enter("Mutation.createChat", inp, ResolverChatBefore(inp, None))

CreateChatAnswer ==
    Leave("Mutation.createChat",
          ResolverChatAfter(HandleChatAPIAfter(AdapterOutcome)))

SendMessageCall ==
    \E inp \in SendMessageInputs :
        Enter("Mutation.sendMessage", inp, SendMessageBefore(inp))

\* the three identifiers are generated one after the other: the clock does
\* not run backwards between them
SendMessageAnswer ==
    \E now1, now2 \in 0..MaxNow, rnd0, rnd1, rnd2 \in RandomSuffixes :
        /\ now1 <= now2
        /\ Leave("Mutation.sendMessage",
                 SendMessageAfter(input[1], AdapterOutcome,
                                  generateConversationId(now1, rnd0),
                                  generateMessageId(now1, rnd1),
                                  generateMessageId(now2, rnd2)))

-----------------------------------------------------------------------------
(* The worker's fetch: routing *)

Methods == { "OPTIONS", "GET", "POST", "DELETE" }

PathRoot == << "/" >>
PathGraphQL == << "/", "g", "r", "a", "p", "h", "q", "l" >>
PathChat == << "/", "a", "p", "i", "/", "c", "h", "a", "t" >>
ConversationsPrefix ==
    << "/", "a", "p", "i", "/", "c", "o", "n", "v", "e", "r", "s", "a", "t",
       "i", "o", "n", "s", "/" >>

\* url.pathname of the requests: the documented paths, paths that extend
\* '/graphql', a conversations path without an id and one with two segments,
\* and a path no route names
Paths ==
    { PathRoot, PathGraphQL, PathGraphQL \o << "x" >>,
      PathGraphQL \o << "/", "x" >>, PathChat,
      ConversationsPrefix \o << "c", "7" >>, ConversationsPrefix,
      ConversationsPrefix \o << "c", "/", "m" >>, << "/", "x" >> }

\* a request to the worker: method, path, and what handleChatAPI reads of it
FetchRequests ==
    { [method |-> m, path |-> p, message |-> r.message,
       conversationId |-> r.conversationId, systemPrompt |-> r.systemPrompt,
       model |-> r.model, env |-> r.env, contentTypeJson |-> r.contentTypeJson,
       bodyJson |-> r.bodyJson] :
        m \in Methods, p \in Paths,
        r \in { q \in RestRequests :
                  /\ q.conversationId = None
                  /\ q.systemPrompt = None
                  /\ q.model = None
                  /\ (q.message.type = "string" => Len(q.message.text) <= 3) } }

\* handleCORS(request)
handleCORS ==
    [tag |-> "response", status |-> 200, headers |-> corsHeaders, body |-> None]

\* what apolloHandler(request, env, ctx) settles with: a response with the
\* headers Apollo gave it, or a rejection
ApolloStatuses == { 200, 400, 500 }

ApolloHeaders ==
    { ("Content-Type" :> "application/json"),
      ("Content-Type" :> "application/json")
      @@ ("Access-Control-Allow-Origin" :> "null") }

ApolloOutcomes ==
    { Return([status |-> st, headers |-> h]) :
        st \in ApolloStatuses, h \in ApolloHeaders }
    \cup { Throw(NewError(<< "Context creation failed" >>)) }

\* headers.set(name, value), four times; then new Response(response.body, ...)
GraphQLResponse(out) ==
    IF out.tag = "throw" THEN out
    ELSE [tag |-> "response", status |-> out.value.status,
          headers |->
            ("Access-Control-Allow-Origin" :> "*")
            @@ ("Access-Control-Allow-Methods" :> "GET, POST, OPTIONS")
            @@ ("Access-Control-Allow-Headers" :> "Content-Type, Authorization")
            @@ ("Access-Control-Max-Age" :> "86400")
            @@ out.value.headers,
          body |-> None]

\* the health check's response
HealthResponse ==
    [tag |-> "response", status |-> 200, headers |-> JsonHeaders,
     body |-> [message |->
                 << "Chat Service API is running with Apollo Server support" >>,
               version |-> "1.0.0"]]

\* pathname.match(/^\/api\/conversations\/([^/]+)$/): the captured id, if any
conversationMatch(pathname) ==
    IF /\ StartsWith(pathname, ConversationsPrefix)
       /\ Len(pathname) > Len(ConversationsPrefix)
       /\ \A i \in (Len(ConversationsPrefix) + 1)..Len(pathname) :
             pathname[i] # "/"
    THEN Some(SubSeq(pathname, Len(ConversationsPrefix) + 1, Len(pathname)))
    ELSE None

\* handleConversationAPI(request, env, conversationId)
handleConversationAPI(conversationId) ==
    IF Len(conversationId) = 0 \/ Len(Trim(conversationId)) = 0
    THEN jsonError(<< "Invalid conversation ID" >>, "INVALID_CONVERSATION_ID", 400)
    ELSE [tag |-> "response", status |-> 200, headers |-> JsonHeaders,
          body |-> [id |-> conversationId, messages |-> << >>]]

\* the branch of fetch that takes the request, and what that branch does:
\* answers, throws, or (handleChatAPI) calls the adapter
Dispatch(req, apollo) ==
    IF req.method = "OPTIONS"
    THEN [handler |-> "handleCORS", out |-> handleCORS]
    ELSE IF req.path = PathGraphQL \/ StartsWith(req.path, PathGraphQL)
    THEN [handler |-> "apolloHandler", out |-> GraphQLResponse(apollo)]
    ELSE IF req.method = "GET" /\ req.path = PathRoot
    THEN [handler |-> "health", out |-> HealthResponse]
    ELSE IF req.method = "POST" /\ req.path = PathChat
    THEN [handler |-> "handleChatAPI", out |-> HandleChatAPIBefore(req)]
    ELSE IF req.method = "GET" /\ conversationMatch(req.path) # None
    THEN [handler |-> "handleConversationAPI",
          out |-> handleConversationAPI(conversationMatch(req.path)[1])]
    ELSE [handler |-> "notFound",
          out |-> jsonError(<< "Route not found" >>, "NOT_FOUND", 404)]

\* fetch(request, env, ctx): the preflight is answered outside the try block,
\* every other branch inside it
Fetch ==
    \E req \in FetchRequests, apollo \in ApolloOutcomes :
        LET d == Dispatch(req, apollo)
        IN Enter(d.handler, req,
                 IF req.method = "OPTIONS" THEN d.out ELSE FetchCatch(d.out))

Next ==
    \/ DeepSeekChatCall
    \/ DeepSeekChatSettle
    \/ OpenAIChatCall
    \/ OpenAIChatSettle
    \/ ChatWithHistoryCall
    \/ ChatWithHistorySettle
    \/ ChatStreamCall(OpenAIRequests)
    \/ StreamStart
    \/ StreamFetchSettle(StreamOutcomes(FewScripts))
    \/ ReadChunk
    \/ ReadDone
    \/ ReadFail
    \/ StreamResume
    \/ StreamReturn

Spec == Init /\ [][Next]_vars

\* the streaming decoder alone, over every script
DecoderNext ==
    \/ ChatStreamCall(FewRequests)
    \/ StreamStart
    \/ StreamFetchSettle(StreamOutcomes(Scripts))
    \/ ReadChunk
    \/ ReadDone
    \/ ReadFail
    \/ StreamResume
    \/ StreamReturn

DecoderSpec == Init /\ [][DecoderNext]_vars

\* one OpenAIService object, its setter, and up to MaxCalls calls on it
ConfigNext ==
    \/ SetDefaultModel
    \/ AdapterReuse
    \/ OpenAIChatCallOf(ConfigRequests)
    \/ OpenAIChatSettle
    \/ ChatStreamCall(ConfigRequests)
    \/ StreamStart
    \/ StreamFetchSettle(StreamOutcomes(FewScripts))
    \/ ReadChunk
    \/ ReadDone
    \/ ReadFail
    \/ StreamResume
    \/ StreamReturn

ConfigSpec == Init /\ [][ConfigNext]_vars

\* one request through an entry point
CallerNext ==
    \/ RestChatCall
    \/ RestChatAnswer
    \/ QueryChatCall
    \/ QueryChatAnswer
    \/ CreateChatCall
    \/ CreateChatAnswer
    \/ SendMessageCall
    \/ SendMessageAnswer
    \/ OpenAIChatSettle

CallerSpec == Init /\ [][CallerNext]_vars

\* two calls on one adapter, interleaved at their awaits and yields
ConcurrentNext ==
    \/ Switch
    \/ OpenAIChatCallOf(ConcurrentRequests)
    \/ OpenAIChatSettle
    \/ ChatStreamCall(ConcurrentRequests)
    \/ StreamStart
    \/ StreamFetchSettle(StreamOutcomes(ConcurrentScripts))
    \/ ReadChunk
    \/ ReadDone
    \/ ReadFail
    \/ StreamResume
    \/ StreamReturn

ConcurrentSpec == Init /\ [][ConcurrentNext]_vars

\* one request through the worker's fetch
RouterNext ==
    \/ Fetch
    \/ RestChatAnswer
    \/ OpenAIChatSettle

RouterSpec == Init /\ [][RouterNext]_vars

-----------------------------------------------------------------------------
(* Properties *)

Completions ==
    { "DeepSeekService.chat", "OpenAIService.chat", "OpenAIService.chatWithHistory" }

\* the history a request carries (only chatWithHistory's request type has one)
HistoryOf(req) ==
    IF "history" \in DOMAIN req /\ req.history # None THEN req.history[1] ELSE << >>

\* C1 as stated: the message list sent upstream is the system message iff a
\* systemPrompt is supplied, then the history in its order, then the user
\* message.
C1_SystemIffSupplied ==
    payload # None =>
        payload[1].messages =
            (IF request[1].systemPrompt # None
             THEN << [role |-> "system", content |-> request[1].systemPrompt[1]] >>
             ELSE << >>)
            \o HistoryOf(request[1])
            \o << [role |-> "user", content |-> request[1].message] >>

\* C1, amended: the message list sent upstream is the system message iff the
\* systemPrompt is supplied and not the empty string, then every history entry
\* in its original order, then the current user message as the last element.
C1_MessageOrder ==
    payload # None =>
        payload[1].messages =
            (IF request[1].systemPrompt # None /\ request[1].systemPrompt[1] # << >>
             THEN << [role |-> "system", content |-> request[1].systemPrompt[1]] >>
             ELSE << >>)
            \o HistoryOf(request[1])
            \o << [role |-> "user", content |-> request[1].message] >>

C1_Witness ==
    /\ op = "OpenAIService.chatWithHistory"
    /\ payload # None
    /\ request[1].systemPrompt = Some(<< "s" >>)
    /\ HistoryOf(request[1]) =
          << [role |-> "assistant", content |-> << "r" >>],
             [role |-> "user", content |-> << "q" >>] >>
    /\ Len(payload[1].messages) = 4

\* C2: a successful completion echoes a present, non-empty conversationId
\* unchanged, and otherwise carries a freshly generated, non-empty identifier.
C2_ConversationId ==
    (pc = "returned" /\ op \in Completions) =>
        IF request[1].conversationId # None /\ request[1].conversationId[1] # ""
        THEN result[1].conversationId = request[1].conversationId[1]
        ELSE /\ Len(result[1].conversationId) > 0
             /\ \E now \in 0..MaxNow, rnd \in RandomSuffixes :
                   result[1].conversationId = generateConversationId(now, rnd)

C2_Witness ==
    /\ pc = "returned"
    /\ op = "OpenAIService.chatWithHistory"
    /\ request[1].conversationId = Some("c7")
    /\ result[1].conversationId = "c7"

\* the closed taxonomy of failure kinds
ErrorKinds ==
    { "AuthenticationError", "RateLimited", "Unavailable", "InvalidRequest",
      "EmptyResponse", "ProviderInternalError", "Unknown" }

\* C3 as stated: every failure of a completion or stream call reaches the
\* caller as a ProviderError whose kind is in the closed taxonomy; no raw
\* transport exception or generic error escapes.
C3_ClassifiedErrorsOnly ==
    pc = "threw" =>
        /\ error[1].name = "ProviderError"
        /\ error[1].kind \in ErrorKinds

\* the failure kind the stated classification gives a settled fetch
Classify(out) ==
    IF out.settled = "rejected" THEN "Unavailable"
    ELSE IF out.status = 401 THEN "AuthenticationError"
    ELSE IF out.status = 429 THEN "RateLimited"
    ELSE IF out.status = 503 THEN "Unavailable"
    ELSE IF out.status >= 400 /\ out.status <= 499 THEN "InvalidRequest"
    ELSE IF out.status >= 500 THEN "ProviderInternalError"
    ELSE IF /\ ResponseOk(out.status)
            /\ out.body.isJson
            /\ (NoChoices(out.body) \/ out.body.choices[1][1].message = None)
    THEN "EmptyResponse"
    ELSE "Unknown"

\* the kind a caller can read off the value that was thrown: the kind of a
\* ProviderError, else the kind that the text of a generic Error stands for,
\* else none
KindThrown(e) ==
    IF e.name = "ProviderError" THEN e.kind
    ELSE IF e.name # "Error" THEN "none"
    ELSE IF e.message = << "Invalid OpenAI API key" >> THEN "AuthenticationError"
    ELSE IF e.message = << "OpenAI API rate limit exceeded. Please try again later." >>
    THEN "RateLimited"
    ELSE IF e.message =
            << "OpenAI API is temporarily unavailable. Please try again later." >>
    THEN "Unavailable"
    ELSE IF e.message \in { << "No response from OpenAI API" >>,
                            << "No response from DeepSeek API" >> }
    THEN "EmptyResponse"
    ELSE "none"

\* C4 as stated: a failed OpenAIService.chat fails with the kind that the ordered
\* classification (no response, 401, 429, 503, other 4xx, other 5xx, 2xx with
\* an empty or malformed choice list, anything else) gives its outcome.
C4_ClassificationOrder ==
    (pc = "threw" /\ op = "OpenAIService.chat") =>
        KindThrown(error[1]) = Classify(response[1])

\* C5 as stated: on a 2xx response whose choices list is missing or empty,
\* every completion entry point fails with the EmptyResponse kind and returns
\* no result.
C5_EmptyChoices ==
    (/\ op \in Completions
     /\ pc \in { "returned", "threw" }
     /\ response[1].settled = "fulfilled"
     /\ ResponseOk(response[1].status)
     /\ response[1].body.isJson
     /\ NoChoices(response[1].body)) =>
        /\ pc = "threw"
        /\ result = None
        /\ KindThrown(error[1]) = "EmptyResponse"

-----------------------------------------------------------------------------
(* Properties of the streaming decoder *)

\* the generator has ended, one way or another
StreamEnded ==
    op = "OpenAIService.chatStream" /\ pc \in { "returned", "threw", "cancelled" }

\* a reader was obtained: the fetch resolved 2xx with a body
ReaderObtained ==
    /\ op = "OpenAIService.chatStream"
    /\ response # None
    /\ response[1].settled = "fulfilled"
    /\ ResponseOk(response[1].status)
    /\ response[1].hasBody

\* the content delta an event of a script carries
EventDelta(e) ==
    CASE e = "x" -> << "x" >>
      [] e = "e" -> << "é" >>
      [] e = "tail" -> << "y" >>
      [] OTHER -> << >>

\* the non-empty deltas of a script's events, in order
RECURSIVE ScriptDeltas(_)
ScriptDeltas(sc) ==
    IF sc = << >> THEN << >>
    ELSE (IF EventDelta(Head(sc)) # << >> THEN << EventDelta(Head(sc)) >> ELSE << >>)
         \o ScriptDeltas(Tail(sc))

RECURSIVE Concat(_)
Concat(ds) == IF ds = << >> THEN << >> ELSE Head(ds) \o Concat(Tail(ds))

RECURSIVE ScriptContent(_)
ScriptContent(sc) ==
    IF sc = << >> THEN << >> ELSE EventDelta(Head(sc)) \o ScriptContent(Tail(sc))

ContentEvents == { "x", "e", "empty" }

OnlyEvents(sc, S) == \A i \in 1..Len(sc) : sc[i] \in S

\* C6: when the body is N content deltas, each delivered by one read as one
\* complete, newline-terminated data frame, the stream ends having yielded
\* the deltas in their order, their concatenation being the concatenation S of
\* the deltas sent: none is duplicated, reordered or lost.
C6_RoundTrip ==
    (/\ ReaderObtained
     /\ pc = "returned"
     /\ framed
     /\ OnlyEvents(script, ContentEvents)) =>
        /\ yielded = ScriptDeltas(script)
        /\ Concat(yielded) = ScriptContent(script)

C6_Witness ==
    /\ ReaderObtained
    /\ pc = "returned"
    /\ framed
    /\ script = << "x", "e", "x" >>
    /\ yielded = << << "x" >>, << "é" >>, << "x" >> >>

\* every delta the lines yield, in order
RECURSIVE AllDeltas(_)
AllDeltas(ls) ==
    IF ls = << >> THEN << >>
    ELSE LET h == HandleLine(Head(ls)) IN
         (IF h.tag = "yield" THEN << h.delta >> ELSE << >>) \o AllDeltas(Tail(ls))

\* the decoder's state had the bytes delivered so far come in a single read
OneRead(bytes) ==
    LET decoded == DecodeChunk(<< >>, bytes)
        split == SplitBuffer(<< >>, decoded.text)
    IN [deltas |-> AllDeltas(split.lines), buffer |-> split.buffer,
        held |-> decoded.held]

\* C7: the deltas do not depend on how the transport splits the bytes into
\* reads.  However the bytes delivered so far were split, the deltas yielded
\* plus those of the lines the suspended loop has left are the deltas of the
\* same bytes delivered in one read, and the fragment carried in the buffer
\* (and the bytes the decoder holds) are the same too.
C7_ChunkingIndependent ==
    (ReaderObtained /\ pc \in { "reading", "suspended", "returned" }) =>
        LET one == OneRead(SubSeq(bodyBytes, 1, pos))
        IN /\ yielded \o AllDeltas(lines) = one.deltas
           /\ buffer = one.buffer
           /\ held = one.held

\* a read ended inside the 'data: ' prefix of the second event, after the
\* first event's delta was yielded: the fragment is carried in the buffer
C7_Witness ==
    /\ ReaderObtained
    /\ pc = "reading"
    /\ script = << "x", "e" >>
    /\ yielded = << << "x" >> >>
    /\ buffer = << "d", "a", "t" >>

\* C8: a data line that is not valid JSON is skipped and neither ends nor
\* fails the stream: the stream fails only when the transport does, and at its
\* end every valid data line, before or after the malformed one, in the same
\* read or a later one, has yielded its delta.
C8_MalformedLineSkipped ==
    /\ (ReaderObtained /\ pc = "threw") => bodyState = "errored"
    /\ (/\ ReaderObtained
        /\ pc = "returned"
        /\ \E i \in 1..Len(script) : script[i] = "bad"
        /\ OnlyEvents(script, Events \ { "tail" })) =>
            yielded = ScriptDeltas(script)

C8_Witness ==
    /\ ReaderObtained
    /\ pc = "returned"
    /\ script = << "x", "bad", "e" >>
    /\ yielded = << << "x" >>, << "é" >> >>

\* C9 as stated: once the upstream response was obtained, no terminal state
\* of chatStream still holds a read handle or a response body.
C9_ReleasedOnEveryExit ==
    (/\ StreamEnded
     /\ response # None
     /\ response[1].settled = "fulfilled") =>
        /\ ~readerLocked
        /\ bodyState \in { "none", "closed", "errored" }

IsPrefix(a, b) == Len(a) <= Len(b) /\ SubSeq(b, 1, Len(a)) = a

\* C10 as stated: when a read fails after k deltas were yielded, the consumer
\* has exactly those k deltas in order, the sequence has failed with a
\* ProviderError, and no further delta can be yielded.
C10_ReadFailure ==
    (ReaderObtained /\ pc = "threw" /\ bodyState = "errored") =>
        /\ IsPrefix(yielded, OneRead(bodyBytes).deltas)
        /\ ~ENABLED (ReadChunk \/ StreamResume)
        /\ error[1].name = "ProviderError"

\* the part of C10 that does not depend on the class of the error
C10_DeltasThenFailure ==
    (ReaderObtained /\ pc = "threw" /\ bodyState = "errored") =>
        /\ IsPrefix(yielded, OneRead(bodyBytes).deltas)
        /\ ~ENABLED (ReadChunk \/ StreamResume)
        /\ error # None

-----------------------------------------------------------------------------
(* Properties of the upstream call and of the adapter's configuration *)

\* C11: an invocation issues one upstream POST and never a second one,
\* whatever the fetch settles with: a call that has reached its fetch has
\* issued exactly one POST, with stream = false for a completion and
\* stream = true for chatStream, and no state has issued two.
C11_OnePostNoRetry ==
    /\ posts <= 1
    /\ (posts = 1) <=> (payload # None)
    /\ pc \in { "fetching", "reading", "suspended", "returned", "threw" } => posts = 1
    /\ payload # None =>
          payload[1].stream = (op = "OpenAIService.chatStream")

\* a rate-limited OpenAIService.chat has failed after its one POST
C11_Witness ==
    /\ op = "OpenAIService.chat"
    /\ pc = "threw"
    /\ response[1].settled = "fulfilled"
    /\ response[1].status = 429
    /\ posts = 1
    /\ payload[1].stream = FALSE

\* C12 as stated: on a 2xx response with at least one choice, the result's
\* message is the first choice's content, its usage is the provider's usage
\* unchanged and its finishReason is the first choice's finish_reason, for
\* the DeepSeek and the OpenAI adapter alike.
C12_FirstChoiceMapped ==
    (pc = "returned" /\ op \in Completions) =>
        LET first == response[1].body.choices[1][1]
        IN /\ result[1].message = first.message[1].content
           /\ result[1].usage = response[1].body.usage
           /\ "finishReason" \in DOMAIN result[1]
           /\ result[1].finishReason = first.finish_reason

\* the part of C12 that holds of every adapter: message and usage
C12_MessageAndUsage ==
    (pc = "returned" /\ op \in Completions) =>
        LET first == response[1].body.choices[1][1]
        IN /\ result[1].message = first.message[1].content
           /\ result[1].usage = response[1].body.usage
           /\ op # "DeepSeekService.chat" =>
                 result[1].finishReason = first.finish_reason

\* C13 as stated: for a request whose message is empty or whitespace-only the
\* adapter fails without issuing any upstream call.
C13_BlankMessageRejected ==
    (request # None /\ Trim(request[1].message) = << >>) =>
        /\ posts = 0
        /\ payload = None
        /\ pc \notin { "fetching", "reading", "suspended", "returned" }

\* C14 as stated: nothing changes the adapter's default model after its
\* construction, and any two requests that omit model, issued on the same
\* adapter at any two points in time, are sent with the same model.
C14_ConfigurationImmutable ==
    /\ defaultModel = OpenAIDefaultModel
    /\ \A i, j \in DOMAIN sent :
          (sent[i].omitted /\ sent[j].omitted) => sent[i].model = sent[j].model

-----------------------------------------------------------------------------
(* Properties of the entry points *)

\* the entry point has answered with a failure: a thrown error, or a response
\* whose status is not 2xx
ReplyFailed ==
    /\ reply # None
    /\ \/ reply[1].tag = "throw"
       \/ reply[1].tag = "response" /\ ~ResponseOk(reply[1].status)

ReplySucceeded == reply # None /\ ~ReplyFailed

\* the model, the error message and the error code a reply carries
ReplyModel ==
    IF reply[1].tag = "response" THEN reply[1].body.model ELSE reply[1].value.model

ReplyErrorMessage ==
    IF reply[1].tag = "response" THEN reply[1].body.error ELSE reply[1].value.message

ReplyErrorCode ==
    IF reply[1].tag = "response" THEN Some(reply[1].body.code)
    ELSE IF "code" \in DOMAIN reply[1].value THEN reply[1].value.code
    ELSE None

\* C15 as stated: identifiers produced by distinct generation calls are
\* distinct, also when the calls observe the same timestamp: the user message
\* id and the assistant message id of one sendMessage differ, and neither is
\* the conversation id.
C15_DistinctIds ==
    (entry = "Mutation.sendMessage" /\ reply # None /\ reply[1].tag = "return") =>
        LET conversation == reply[1].value.conversation
        IN /\ conversation.messages[1].id # conversation.messages[2].id
           /\ conversation.messages[1].id # conversation.id
           /\ conversation.messages[2].id # conversation.id

\* C16 as stated: the usage of a result is the provider's usage unchanged when
\* the provider supplies one, and otherwise the estimate ceil(len/4) of the
\* prompt text, of the completion text, and their sum.
C16_UsageReconciled ==
    (pc = "returned" /\ op \in Completions) =>
        result[1].usage =
            IF response[1].body.usage # None THEN response[1].body.usage
            ELSE Some([prompt_tokens |-> estimateTokens(request[1].message),
                       completion_tokens |-> estimateTokens(result[1].message),
                       total_tokens |-> estimateTokens(request[1].message)
                                        + estimateTokens(result[1].message)])

\* C17 as stated: model, temperature and max tokens of the outgoing payload
\* are the values the request supplies, and the adapter's defaults only for
\* the values it omits; this of the request object the adapter is called
\* with, and of the model the entry point was called with.
C17_SuppliedValuesSent ==
    (payload # None /\ "model" \in DOMAIN request[1]) =>
        /\ payload[1].model =
              (IF request[1].model # None THEN request[1].model[1]
               ELSE defaultModel)
        /\ payload[1].temperature =
              (IF request[1].temperature # None THEN request[1].temperature[1]
               ELSE DefaultTemperature)
        /\ payload[1].max_tokens =
              (IF request[1].maxTokens # None THEN request[1].maxTokens[1]
               ELSE DefaultMaxTokens)
        /\ (input # None /\ input[1].model # None) =>
              payload[1].model = input[1].model[1]

\* C18 as stated: the model a successful reply reports is the model field of
\* the provider's response.
C18_ModelFromProvider ==
    (ReplySucceeded /\ response # None /\ response[1].body.model # None) =>
        ReplyModel = response[1].body.model[1]

\* C19 as stated: through every entry point a message longer than 10000
\* characters is rejected and no upstream call is made for it.
C19_LongMessageRejected ==
    (/\ input # None
     /\ input[1].message.type = "string"
     /\ Len(input[1].message.text) > MaxMessageLength) =>
        /\ posts = 0
        /\ payload = None
        /\ ReplyFailed

\* C20 as stated: through every entry point a well-formed request whose
\* message is missing, not a string, empty or whitespace-only is rejected
\* with the message 'Message is required and must be a non-empty string' and
\* the code INVALID_MESSAGE, and no adapter is constructed or called.
C20_InvalidMessageRejected ==
    (/\ input # None
     /\ input[1].contentTypeJson
     /\ input[1].bodyJson
     /\ InvalidMessage(input[1].message)) =>
        /\ ReplyFailed
        /\ ReplyErrorMessage = InvalidMessageText
        /\ ReplyErrorCode = Some("INVALID_MESSAGE")
        /\ adapters = 0
        /\ posts = 0

\* C21 as stated: a successful sendMessage returns the supplied
\* conversationId when one was supplied; its conversation has the id that the
\* result has; and the conversation's messages are exactly a USER message and
\* then an ASSISTANT message, the second with the content of result.message,
\* the first with the text that was sent to the provider.
C21_SendMessageShape ==
    (entry = "Mutation.sendMessage" /\ reply # None /\ reply[1].tag = "return") =>
        LET res == reply[1].value
        IN /\ input[1].conversationId # None =>
                 res.conversationId = input[1].conversationId[1]
           /\ res.conversation.id = res.conversationId
           /\ Len(res.conversation.messages) = 2
           /\ res.conversation.messages[1].role = "USER"
           /\ res.conversation.messages[2].role = "ASSISTANT"
           /\ res.conversation.messages[2].content = res.message
           /\ res.conversation.messages[1].content = request[1].message
           /\ res.conversation.messages[1].content = payload[1].messages[
                  Len(payload[1].messages)].content

-----------------------------------------------------------------------------
(* More properties of the streaming decoder *)

\* the unterminated line occurs in the script only as its last event
TailOnlyLast(sc) == \A i \in 1..(Len(sc) - 1) : sc[i] # "tail"

\* the events of a script that are complete, newline-terminated lines
TerminatedEvents(sc) ==
    IF sc # << >> /\ sc[Len(sc)] = "tail" THEN SubSeq(sc, 1, Len(sc) - 1) ELSE sc

\* C24: the delta sequence ends when the transport signals end-of-stream and
\* not earlier: the terminator line yields nothing and does not end the
\* sequence (the data lines after it are decoded), and the text left in the
\* buffer at end-of-stream is discarded without being parsed or yielded.
C24_EndsAtEndOfStream ==
    (ReaderObtained /\ pc = "returned") =>
        /\ pos = Len(bodyBytes)
        /\ bodyState = "closed"
        /\ TailOnlyLast(script) =>
              /\ yielded = ScriptDeltas(TerminatedEvents(script))
              /\ buffer = (IF TerminatedEvents(script) # script
                           THEN EventLine("tail") ELSE << >>)

C24_Witness ==
    /\ ReaderObtained
    /\ pc = "returned"
    /\ script = << "done", "x", "tail" >>
    /\ yielded = << << "x" >> >>
    /\ buffer = EventLine("tail")

\* C25: the decoder issues no network read while a delta it produced is
\* unconsumed.  A step hands the consumer at most one delta and suspends the
\* generator there; a suspended generator reads nothing; and a read is
\* awaited only when every line of the read before has been handled.
C25_Backpressure ==
    [][/\ yielded' # yielded =>
            /\ Len(yielded') = Len(yielded) + 1
            /\ SubSeq(yielded', 1, Len(yielded)) = yielded
            /\ pc' = "suspended"
       /\ pc = "suspended" => pos' = pos
       /\ pos' # pos => (pc = "reading" /\ lines = << >>)
       /\ pc' = "reading" => lines' = << >>]_vars

\* one read held two data lines: the first delta is with the consumer, the
\* second line is still to be handled, and no read is awaited
C25_Witness ==
    /\ ReaderObtained
    /\ pc = "suspended"
    /\ script = << "x", "e" >>
    /\ pos = Len(bodyBytes)
    /\ yielded = << << "x" >> >>
    /\ \E i \in DOMAIN lines : lines[i] = EventLine("e")

C29_KeyCheckGuardsUsedProvider ==
    (/\ entry = "Mutation.sendMessage"
     /\ ~InvalidMessage(input[1].message)
     /\ Len(input[1].message.text) <= MaxMessageLength) =>
        /\ input[1].env.DEEPSEEK_API_KEY # "" => adapters = 1
        /\ input[1].env.OPENAI_API_KEY = "" =>
              /\ ReplyFailed
              /\ ReplyErrorCode = Some("CONFIGURATION_ERROR")
              /\ adapters = 0
              /\ posts = 0

-----------------------------------------------------------------------------
(* Properties of the failure reports *)

\* the call failed on a response whose status is not 2xx
FailedOnStatus ==
    /\ pc = "threw"
    /\ response # None
    /\ response[1].settled = "fulfilled"
    /\ ~ResponseOk(response[1].status)

\* C28 as stated: a 401, a 429 and a 503 are each reported in the same way
\* by DeepSeekService.chat, OpenAIService.chat, chatWithHistory and
\* chatStream (as an authentication failure, a rate limit, an unavailable
\* provider), and in a way no other non-2xx status is reported.
C28_SameStatusSameReport ==
    FailedOnStatus =>
        LET reported == KindThrown(error[1])
        IN CASE response[1].status = 401 -> reported = "AuthenticationError"
             [] response[1].status = 429 -> reported = "RateLimited"
             [] response[1].status = 503 -> reported = "Unavailable"
             [] OTHER -> reported \notin
                            { "AuthenticationError", "RateLimited", "Unavailable" }

\* what holds of the code: OpenAIService.chat alone reports the three statuses
\* apart
C28_OpenAIChatOnly ==
    (FailedOnStatus /\ response[1].status \in { 401, 429, 503 }) =>
        (KindThrown(error[1]) \in { "AuthenticationError", "RateLimited", "Unavailable" }
            <=> op = "OpenAIService.chat")

-----------------------------------------------------------------------------
(* Properties of two calls in flight *)

\* what a call has sent and produced is what its own request and its own
\* provider response give: the message list is its own message, a result is
\* the outcome of its own response, and the deltas, the carried buffer and the
\* held bytes are those of the bytes its own body has delivered
OwnInputsOnly(c) ==
    /\ c.payload # None =>
          /\ c.payload[1].messages =
                << [role |-> "user", content |-> c.request[1].message] >>
          /\ c.payload[1].stream = (c.op = "OpenAIService.chatStream")
    /\ (c.op = "OpenAIService.chat" /\ c.pc \in { "returned", "threw" }) =>
          \E now \in 0..MaxNow, rnd \in RandomSuffixes :
              LET outcome == OpenAIChatOutcome(c.request[1], c.response[1], now, rnd)
              IN IF c.pc = "returned"
                 THEN outcome = Return(c.result[1]) /\ c.error = None
                 ELSE outcome = Throw(c.error[1]) /\ c.result = None
    /\ (/\ c.op = "OpenAIService.chatStream"
        /\ c.pc \in { "reading", "suspended", "returned" }) =>
          LET one == OneRead(SubSeq(c.bodyBytes, 1, c.pos))
          IN /\ c.bodyBytes = ScriptBytes(c.response[1].script)
             /\ c.yielded \o AllDeltas(c.lines) = one.deltas
             /\ c.buffer = one.buffer
             /\ c.held = one.held

\* C27: however two calls on one adapter interleave, each call's payload and
\* its result or deltas depend only on its own request and its own provider
\* response: no call reads or writes the other's message list, buffer or
\* generated conversation id.
C27_CallsIsolated == OwnInputsOnly(Locals) /\ OwnInputsOnly(parked)

\* two streams in flight, each in the middle of a line of its own body
C27_Witness ==
    /\ op = "OpenAIService.chatStream"
    /\ parked.op = "OpenAIService.chatStream"
    /\ request # parked.request
    /\ script = << "x" >>
    /\ parked.script = << "e", "tail" >>
    /\ pc = "reading"
    /\ parked.pc = "reading"
    /\ buffer # << >>
    /\ parked.buffer # << >>
    /\ buffer # parked.buffer

-----------------------------------------------------------------------------
(* Properties of the worker's fetch *)

\* a request has gone through fetch's routing
Routed == input # None /\ "path" \in DOMAIN input[1]

\* the route the documented table gives a method and a path, tried in its
\* order, with '/graphql' alone for the GraphQL endpoint
DocumentedRoute(method, path) ==
    IF method = "OPTIONS" THEN "handleCORS"
    ELSE IF path = PathGraphQL THEN "apolloHandler"
    ELSE IF method = "GET" /\ path = PathRoot THEN "health"
    ELSE IF method = "POST" /\ path = PathChat THEN "handleChatAPI"
    ELSE IF method = "GET" /\ conversationMatch(path) # None
    THEN "handleConversationAPI"
    ELSE "notFound"

\* C22 as stated: the route that handles a request is the one the ordered
\* table gives its method and path (OPTIONS, then the path '/graphql' itself,
\* then GET '/', POST '/api/chat', GET '/api/conversations/:id' with the id
\* echoed back, and otherwise a 404 with code NOT_FOUND).
C22_RoutingTable ==
    Routed =>
        /\ entry = DocumentedRoute(input[1].method, input[1].path)
        /\ (entry = "handleConversationAPI" /\ reply # None) =>
              reply[1].body.id = conversationMatch(input[1].path)[1]
        /\ (entry = "notFound" /\ reply # None) =>
              /\ reply[1].status = 404
              /\ reply[1].body.code = "NOT_FOUND"

CorsHeaderNames ==
    { "Access-Control-Allow-Origin", "Access-Control-Allow-Methods",
      "Access-Control-Allow-Headers" }

\* C23: every response of the worker's fetch, whatever the route and the
\* outcome, carries the Access-Control-Allow-Origin, -Methods and -Headers
\* headers.
C23_CorsHeadersEverywhere ==
    (Routed /\ reply # None) =>
        /\ reply[1].tag = "response"
        /\ CorsHeaderNames \subseteq DOMAIN reply[1].headers

\* a GraphQL response whose own Access-Control-Allow-Origin was replaced
C23_Witness ==
    /\ Routed
    /\ entry = "apolloHandler"
    /\ reply # None
    /\ reply[1].status = 400
    /\ reply[1].headers["Access-Control-Allow-Origin"] = "*"
    /\ reply[1].headers["Access-Control-Allow-Methods"] = "GET, POST, OPTIONS"

\* the provider call of the request failed: the fetch was rejected, the
\* status is not 2xx, or the adapter threw on what it received
ProviderFailed ==
    /\ response # None
    /\ \/ response[1].settled = "rejected"
       \/ ~ResponseOk(response[1].status)
       \/ pc = "threw"

C30_GraphQLFailureWitness ==
    /\ Routed
    /\ entry = "apolloHandler"
    /\ reply # None
    /\ reply[1].status = 500
    /\ reply[1].body # None
    /\ reply[1].body.code = "INTERNAL_ERROR"

====
